---- MODULE Spec2Model ----
(***************************************************************************)
(* A model of src/main.cxx: window/context bootstrap, shader/program       *)
(* build, the frame loop with its key handler, and teardown.  The program  *)
(* is single-threaded; pc is the position of main.  GLFW, the GL driver    *)
(* and the file system are the environment: their answers are drawn with   *)
(* \E inside the action of the call that asks for them.  Messages the GL   *)
(* driver may send to debugMessageCallbackGL in DEBUG builds are left out. *)
(***************************************************************************)
EXTENDS Integers, Sequences, FiniteSets, TLC

VARIABLES
  pc,              \* position of main (and of mainLoop's body)
  debug,           \* build configuration: TRUE iff DEBUG is defined
  vertFile,        \* shaders/main.vert on disk: Missing or its lines
  fragFile,        \* shaders/main.frag on disk
  glfwInitialized, \* GLFW library state: glfwInit succeeded, glfwTerminate not yet run
  errorCallbackSet,\* glfwSetErrorCallback(errorCallbackGLFW) was called
  windowExists,    \* the GLFW window (and its GL context) exists
  contextCurrent,  \* the window's GL context is current on this thread
  keyCallbackSet,  \* glfwSetKeyCallback(window, keyCallback) was called
  window,          \* main's local: NULL or the window handle
  shouldClose,     \* the window's close flag
  compileStatus,   \* GL_COMPILE_STATUS of the vertex and the fragment shader
  linkStatus,      \* createProgram's local status (GL_LINK_STATUS once queried)
  glPrograms,      \* names of the live program objects of the context
  glVaos,          \* names of the live vertex-array objects of the context
  programData,     \* main's local: NoProgramData or a ProgramData record
  viewport,        \* GL state set by glViewport
  fbSize,          \* mainLoop's locals width, height
  frameLog,        \* the calls of the current loop iteration, in order
  glIssued,        \* every GL call made so far: <<function, context current?>>
  frames,          \* loop iterations started
  polled,          \* events handed out by the glfwPollEvents in progress
  lastKey,         \* arguments of the keyCallback invocation just made
  output,          \* what the program has written: <<stream, message>>
  exitStatus,      \* how the process ended
  released,        \* effective delete calls per handle
  cleanUpCalls     \* invocations of cleanUp

vars ==
  << pc, debug, vertFile, fragFile, glfwInitialized, errorCallbackSet,
     windowExists, contextCurrent, keyCallbackSet, window, shouldClose,
     compileStatus, linkStatus, glPrograms, glVaos, programData, viewport,
     fbSize, frameLog, glIssued, frames, polled, lastKey, output, exitStatus,
     released, cleanUpCalls >>

-----------------------------------------------------------------------------
(* Bounds of the model *)

MaxFrames == 2
MaxEvents == 2
MaxLines == 1

-----------------------------------------------------------------------------
(* Constants of GLFW and of the program *)

GLFW_RELEASE == 0
GLFW_PRESS == 1
GLFW_REPEAT == 2
GLFW_KEY_A == 65
GLFW_KEY_Q == 81
GLFW_KEY_W == 87
GLFW_KEY_F4 == 293
GLFW_KEY_DOWN == 264
GLFW_KEY_UP == 265
GLFW_MOD_SHIFT == 1
GLFW_MOD_CONTROL == 2
GLFW_MOD_ALT == 4
windowWidth == 640
windowHeight == 480
VertexCount == 3

NULL == "nullptr"
WindowHandle == "window"
Missing == [exists |-> FALSE, lines |-> <<>>]
NoProgramData == [program |-> 0, vao |-> 0, vertexCount |-> 0]
NoKey == <<>>
ProgramName == 3
VaoName == 1

Keys == {GLFW_KEY_A, GLFW_KEY_Q, GLFW_KEY_W, GLFW_KEY_F4}
Actions == {GLFW_RELEASE, GLFW_PRESS, GLFW_REPEAT}
Mods == 0 .. (GLFW_MOD_SHIFT + GLFW_MOD_CONTROL + GLFW_MOD_ALT)

Lines == {"void main(){}", "#error"}

SeqsUpTo(S, n) == UNION {[1 .. k -> S] : k \in 0 .. n}

FileContents ==
  {Missing} \cup {[exists |-> TRUE, lines |-> l] : l \in SeqsUpTo(Lines, MaxLines)}

FramebufferSizes == {<<windowWidth, windowHeight>>, <<800, 600>>}

Range(s) == {s[i] : i \in 1 .. Len(s)}

-----------------------------------------------------------------------------
(* Pure functions *)

RECURSIVE BitAnd(_, _)
BitAnd(a, b) ==
  IF a = 0 \/ b = 0 THEN 0
  ELSE (a % 2) * (b % 2) + 2 * BitAnd(a \div 2, b \div 2)

\* keyCallback with the commented-out test of line 54 in place of line 55.
keyCallback_KeyDown(key, action, mods, flag) ==
  LET keyDown == BitAnd(action, GLFW_KEY_DOWN)
      keyCtrl == BitAnd(mods, GLFW_MOD_CONTROL)
      keyAlt == BitAnd(mods, GLFW_MOD_ALT)
  IN IF keyDown # 0
        /\ ((keyCtrl # 0 /\ (key = GLFW_KEY_Q \/ key = GLFW_KEY_W))
            \/ (keyAlt # 0 /\ key = GLFW_KEY_F4))
     THEN TRUE ELSE flag

\* The close flag after keyCallback(window, key, scancode, action, mods),
\* given the flag before it.
keyCallback(key, action, mods, flag) ==
  LET keyUp == BitAnd(action, GLFW_KEY_UP)
      keyQ == key = GLFW_KEY_Q
      keyW == key = GLFW_KEY_W
      keyF4 == key = GLFW_KEY_F4
      keyCtrl == BitAnd(mods, GLFW_MOD_CONTROL)
      keyAlt == BitAnd(mods, GLFW_MOD_ALT)
  IN IF keyUp # 0 /\ ((keyCtrl # 0 /\ (keyQ \/ keyW)) \/ (keyAlt # 0 /\ keyF4))
     THEN TRUE ELSE flag

RECURSIVE readLines(_)
readLines(lines) ==
  IF lines = <<>> THEN <<>>
  ELSE <<Head(lines), "\n">> \o readLines(Tail(lines))

\* readFile: every line followed by a newline; a file that cannot be opened
\* gives the empty text.
readFile(file) == IF ~file.exists THEN <<>> ELSE readLines(file.lines)

\* glCompileShader: a source holding an #error directive never compiles;
\* otherwise the driver decides.
glCompileShader(source, driverAccepts) ==
  driverAccepts /\ "#error" \notin Range(source)

\* glLinkProgram: linking fails when an attached shader is not compiled or a
\* stage has no main function; otherwise the driver decides.
glLinkProgram(vCompiled, fCompiled, vSource, fSource, driverLinks) ==
  /\ vCompiled
  /\ fCompiled
  /\ "void main(){}" \in Range(vSource)
  /\ "void main(){}" \in Range(fSource)
  /\ driverLinks

\* What createProgram writes to stderr (DEBUG builds only, on a failed link).
createProgramLog(dbg, status, vertexLogLength, fragmentLogLength) ==
  IF dbg /\ ~status
  THEN {<<"stderr", "GL program error">>}
       \cup (IF vertexLogLength > 0
             THEN {<<"stderr", "GL vertex shader error">>} ELSE {})
       \cup (IF fragmentLogLength > 0
             THEN {<<"stderr", "GL fragment shader error">>} ELSE {})
  ELSE {}

\* The GL functions createProgram (with createShader) calls.
createProgramCalls(dbg, status, vertexLogLength, fragmentLogLength) ==
  {"glCreateShader", "glShaderSource", "glCompileShader", "glCreateProgram",
   "glAttachShader", "glLinkProgram", "glGetProgramiv", "glDetachShader",
   "glDeleteShader"}
  \cup (IF dbg /\ ~status
        THEN {"glGetProgramInfoLog", "glGetShaderiv"}
             \cup (IF vertexLogLength > 0 \/ fragmentLogLength > 0
                   THEN {"glGetShaderInfoLog"} ELSE {})
        ELSE {})

createProgramThrows_Never(status) == FALSE

\* createProgram throws std::runtime_error iff the link status is false.
createProgramThrows(status) == ~status

Issue(fns, ctx) == {<<f, ctx>> : f \in fns}

\* errorCallbackGLFW: one line on stderr per GLFW error.
errorCallbackGLFW == {<<"stderr", "GLFW error: description">>}

-----------------------------------------------------------------------------
(* The state after process start *)

Init ==
  /\ pc = "start"
  /\ debug \in BOOLEAN
  /\ vertFile \in FileContents
  /\ fragFile \in FileContents
  /\ glfwInitialized = FALSE
  /\ errorCallbackSet = FALSE
  /\ windowExists = FALSE
  /\ contextCurrent = FALSE
  /\ keyCallbackSet = FALSE
  /\ window = NULL
  /\ shouldClose = FALSE
  /\ compileStatus = [vertex |-> FALSE, fragment |-> FALSE]
  /\ linkStatus = FALSE
  /\ glPrograms = {}
  /\ glVaos = {}
  /\ programData = NoProgramData
  /\ viewport = <<0, 0, 0, 0>>
  /\ fbSize = <<0, 0>>
  /\ frameLog = <<>>
  /\ glIssued = {}
  /\ frames = 0
  /\ polled = 0
  /\ lastKey = NoKey
  /\ output = {}
  /\ exitStatus = "running"
  /\ released = [program |-> 0, vao |-> 0]
  /\ cleanUpCalls = 0

-----------------------------------------------------------------------------
(* Window/context bootstrap *)

\* initializeWindow without the DEBUG reporting of lines 79 and 83.
InitializeWindow_Silent ==
  /\ pc = "start"
  /\ \E initOk \in BOOLEAN, createOk \in BOOLEAN, ext \in BOOLEAN :
       IF ~initOk
       THEN /\ window' = NULL
            /\ UNCHANGED <<glfwInitialized, errorCallbackSet, windowExists,
                           contextCurrent, keyCallbackSet, glIssued, output>>
       ELSE IF ~createOk
       THEN /\ glfwInitialized' = FALSE
            /\ window' = NULL
            /\ UNCHANGED <<errorCallbackSet, windowExists, contextCurrent,
                           keyCallbackSet, glIssued, output>>
       ELSE /\ glfwInitialized' = TRUE
            /\ windowExists' = TRUE
            /\ contextCurrent' = TRUE
            /\ keyCallbackSet' = TRUE
            /\ window' = WindowHandle
            /\ UNCHANGED <<errorCallbackSet, glIssued, output>>
  /\ pc' = "main_check"
  /\ UNCHANGED <<debug, vertFile, fragFile, shouldClose, compileStatus,
                 linkStatus, glPrograms, glVaos, programData, viewport, fbSize,
                 frameLog, frames, polled, lastKey, exitStatus, released,
                 cleanUpCalls>>

\* initializeWindow: glfwInit, window hints, glfwCreateWindow,
\* glfwMakeContextCurrent, gladLoadGL, DEBUG output, glfwSwapInterval,
\* glfwSetKeyCallback.  glfwInit and glfwCreateWindow may fail; a failing
\* glfwCreateWindow raises a GLFW error, which goes to the error callback
\* when one is installed.
InitializeWindow ==
  /\ pc = "start"
  /\ \E initOk \in BOOLEAN, createOk \in BOOLEAN, ext \in BOOLEAN :
       IF ~initOk
       THEN /\ output' = output \cup
                 (IF debug
                  THEN {<<"stderr", "GLFW error: Initialization failed">>}
                  ELSE {})
            /\ window' = NULL
            /\ UNCHANGED <<glfwInitialized, errorCallbackSet, windowExists,
                           contextCurrent, keyCallbackSet, glIssued>>
       ELSE IF ~createOk
       THEN /\ errorCallbackSet' = debug
            /\ output' = output \cup (IF debug THEN errorCallbackGLFW ELSE {})
            /\ glfwInitialized' = FALSE
            /\ window' = NULL
            /\ UNCHANGED <<windowExists, contextCurrent, keyCallbackSet,
                           glIssued>>
       ELSE /\ glfwInitialized' = TRUE
            /\ errorCallbackSet' = debug
            /\ windowExists' = TRUE
            /\ contextCurrent' = TRUE
            /\ glIssued' = glIssued \cup
                 (IF debug
                  THEN {<<f, TRUE>> :
                          f \in (IF ext
                                 THEN {"glEnable", "glDebugMessageCallbackARB"}
                                 ELSE {}) \cup {"glGetString"}}
                  ELSE {})
            /\ output' = output \cup
                 (IF debug
                  THEN {<<"stdout",
                          IF ext THEN "GL extension GL_ARB_debug_output available"
                          ELSE "GL extension GL_ARB_debug_output unavailable">>,
                        <<"stdout", "C++ version">>,
                        <<"stdout", "OpenGL version">>}
                  ELSE {})
            /\ keyCallbackSet' = TRUE
            /\ window' = WindowHandle
  /\ pc' = "main_check"
  /\ UNCHANGED <<debug, vertFile, fragFile, shouldClose, compileStatus,
                 linkStatus, glPrograms, glVaos, programData, viewport, fbSize,
                 frameLog, frames, polled, lastKey, exitStatus, released,
                 cleanUpCalls>>

UnchangedByMainStep ==
  UNCHANGED <<debug, vertFile, fragFile, glfwInitialized, errorCallbackSet,
              windowExists, contextCurrent, keyCallbackSet, window, shouldClose,
              compileStatus, linkStatus, glPrograms, glVaos, programData,
              viewport, fbSize, frameLog, glIssued, frames, polled, lastKey,
              output, released, cleanUpCalls>>

\* main without the test of lines 262-264.
MainCheckWindow_NoExit ==
  /\ pc = "main_check"
  /\ pc' = "initializeGL"
  /\ UNCHANGED exitStatus
  /\ UnchangedByMainStep

\* main, lines 261-264: no window, no run.
MainCheckWindow ==
  /\ pc = "main_check"
  /\ IF window = NULL
     THEN pc' = "exited" /\ exitStatus' = "EXIT_FAILURE"
     ELSE pc' = "initializeGL" /\ UNCHANGED exitStatus
  /\ UnchangedByMainStep

-----------------------------------------------------------------------------
(* Shader/program build *)

\* initializeGL with createProgram and createShader inlined: read both
\* files, compile, link, query the link status, report (DEBUG), detach and
\* delete the shaders, throw on a failed link; then create and bind the
\* vertex array and build ProgramData.
InitializeGL ==
  /\ pc = "initializeGL"
  /\ \E driverV \in BOOLEAN, driverF \in BOOLEAN, driverLinks \in BOOLEAN,
        vertexLogLength \in {0, 1}, fragmentLogLength \in {0, 1} :
       LET vertexSource == readFile(vertFile)
           fragmentSource == readFile(fragFile)
           vCompiled == glCompileShader(vertexSource, driverV)
           fCompiled == glCompileShader(fragmentSource, driverF)
           status == glLinkProgram(vCompiled, fCompiled, vertexSource,
                                   fragmentSource, driverLinks)
           throws == createProgramThrows(status)
       IN /\ compileStatus' = [vertex |-> vCompiled, fragment |-> fCompiled]
          /\ linkStatus' = status
          /\ output' = output \cup
               createProgramLog(debug, status, vertexLogLength,
                                fragmentLogLength)
          /\ glPrograms' = IF contextCurrent THEN glPrograms \cup {ProgramName}
                           ELSE glPrograms
          /\ IF throws
             THEN /\ glIssued' = glIssued \cup
                       Issue(createProgramCalls(debug, status, vertexLogLength,
                                          fragmentLogLength), contextCurrent)
                  /\ pc' = "throwing"
                  /\ UNCHANGED <<glVaos, programData>>
             ELSE /\ glIssued' = glIssued \cup
                       Issue(createProgramCalls(debug, status, vertexLogLength,
                                          fragmentLogLength)
                               \cup {"glGenVertexArrays", "glBindVertexArray"},
                             contextCurrent)
                  /\ glVaos' = IF contextCurrent THEN glVaos \cup {VaoName}
                               ELSE glVaos
                  /\ programData' = [program |-> ProgramName, vao |-> VaoName,
                                     vertexCount |-> VertexCount]
                  /\ pc' = "loop_test"
  /\ UNCHANGED <<debug, vertFile, fragFile, glfwInitialized, errorCallbackSet,
                 windowExists, contextCurrent, keyCallbackSet, window,
                 shouldClose, viewport, fbSize, frameLog, frames, polled,
                 lastKey, exitStatus, released, cleanUpCalls>>

\* main with a handler around initializeGL that goes on to teardown.
UncaughtException_Caught ==
  /\ pc = "throwing"
  /\ pc' = "cleanUp"
  /\ UNCHANGED exitStatus
  /\ UnchangedByMainStep

\* The runtime error leaves initializeGL and main uncaught: std::terminate.
UncaughtException ==
  /\ pc = "throwing"
  /\ pc' = "exited"
  /\ exitStatus' = "terminate"
  /\ UnchangedByMainStep

-----------------------------------------------------------------------------
(* Frame loop *)

UnchangedByLoopStep ==
  UNCHANGED <<debug, vertFile, fragFile, glfwInitialized, errorCallbackSet,
              windowExists, contextCurrent, keyCallbackSet, window,
              compileStatus, linkStatus, glPrograms, glVaos, programData,
              output, exitStatus, released, cleanUpCalls>>

\* A loop whose condition does not read the close flag.
LoopTest_Unconditional ==
  /\ pc = "loop_test"
  /\ frames < MaxFrames
  /\ pc' = "glfwGetFramebufferSize"
  /\ frames' = frames + 1
  /\ frameLog' = <<>>
  /\ UNCHANGED <<shouldClose, viewport, fbSize, glIssued, polled, lastKey>>
  /\ UnchangedByLoopStep

\* while (!glfwWindowShouldClose(window)): leave the loop when the flag is
\* set, else start the next iteration.
LoopTest ==
  /\ pc = "loop_test"
  /\ IF shouldClose
     THEN /\ pc' = "cleanUp"
          /\ UNCHANGED <<frames, frameLog>>
     ELSE /\ frames < MaxFrames
          /\ pc' = "glfwGetFramebufferSize"
          /\ frames' = frames + 1
          /\ frameLog' = <<>>
  /\ UNCHANGED <<shouldClose, viewport, fbSize, glIssued, polled, lastKey>>
  /\ UnchangedByLoopStep

\* One GL call of the loop body: logged, and recorded with the context
\* state it was issued under.
GLCall(from, fn, args, to) ==
  /\ pc = from
  /\ pc' = to
  /\ frameLog' = Append(frameLog, <<fn, args>>)
  /\ glIssued' = glIssued \cup {<<fn, contextCurrent>>}

GetFramebufferSize ==
  /\ pc = "glfwGetFramebufferSize"
  /\ \E size \in FramebufferSizes :
       /\ fbSize' = size
       /\ frameLog' = Append(frameLog, <<"glfwGetFramebufferSize", size>>)
  /\ pc' = "glViewport"
  /\ UNCHANGED <<shouldClose, viewport, glIssued, frames, polled, lastKey>>
  /\ UnchangedByLoopStep

Viewport ==
  /\ GLCall("glViewport", "glViewport", <<0, 0, fbSize[1], fbSize[2]>>,
            "glClearColor")
  /\ viewport' = <<0, 0, fbSize[1], fbSize[2]>>
  /\ UNCHANGED <<shouldClose, fbSize, frames, polled, lastKey>>
  /\ UnchangedByLoopStep

ClearColor ==
  /\ GLCall("glClearColor", "glClearColor", <<0, 5, 10, 10>>, "glClear")
  /\ UNCHANGED <<shouldClose, viewport, fbSize, frames, polled, lastKey>>
  /\ UnchangedByLoopStep

Clear ==
  /\ GLCall("glClear", "glClear", <<"GL_COLOR_BUFFER_BIT">>, "glUseProgram")
  /\ UNCHANGED <<shouldClose, viewport, fbSize, frames, polled, lastKey>>
  /\ UnchangedByLoopStep

UseProgram ==
  /\ GLCall("glUseProgram", "glUseProgram", <<programData.program>>,
            "glBindVertexArray")
  /\ UNCHANGED <<shouldClose, viewport, fbSize, frames, polled, lastKey>>
  /\ UnchangedByLoopStep

BindVertexArray ==
  /\ GLCall("glBindVertexArray", "glBindVertexArray", <<programData.vao>>,
            "glDrawArrays")
  /\ UNCHANGED <<shouldClose, viewport, fbSize, frames, polled, lastKey>>
  /\ UnchangedByLoopStep

\* The commented-out indexed draw of line 247 left in next to line 246.
DrawArrays_Twice ==
  /\ pc = "glDrawArrays"
  /\ pc' = "glfwSwapBuffers"
  /\ frameLog' = frameLog \o
       << <<"glDrawArrays", <<"GL_TRIANGLES", 0, programData.vertexCount>>>>,
          <<"glDrawElements", <<"GL_TRIANGLES", programData.vertexCount>>>> >>
  /\ glIssued' = glIssued \cup
       {<<"glDrawArrays", contextCurrent>>, <<"glDrawElements", contextCurrent>>}
  /\ UNCHANGED <<shouldClose, viewport, fbSize, frames, polled, lastKey>>
  /\ UnchangedByLoopStep

DrawArrays ==
  /\ GLCall("glDrawArrays", "glDrawArrays",
            <<"GL_TRIANGLES", 0, programData.vertexCount>>, "glfwSwapBuffers")
  /\ UNCHANGED <<shouldClose, viewport, fbSize, frames, polled, lastKey>>
  /\ UnchangedByLoopStep

\* Events polled before the frame is presented (lines 248 and 249 swapped).
SwapBuffers_AfterPoll ==
  /\ pc = "glfwSwapBuffers"
  /\ pc' = "polling"
  /\ polled' = 0
  /\ frameLog' = Append(frameLog, <<"glfwPollEvents", <<>>>>)
  /\ UNCHANGED <<shouldClose, viewport, fbSize, glIssued, frames, lastKey>>
  /\ UnchangedByLoopStep

SwapBuffers ==
  /\ pc = "glfwSwapBuffers"
  /\ pc' = "glfwPollEvents"
  /\ frameLog' = Append(frameLog, <<"glfwSwapBuffers", <<>>>>)
  /\ UNCHANGED <<shouldClose, viewport, fbSize, glIssued, frames, polled,
                 lastKey>>
  /\ UnchangedByLoopStep

\* glfwPollEvents is entered; the pending events follow one by one.
PollEvents ==
  /\ pc = "glfwPollEvents"
  /\ pc' = "polling"
  /\ polled' = 0
  /\ frameLog' = Append(frameLog, <<"glfwPollEvents", <<>>>>)
  /\ UNCHANGED <<shouldClose, viewport, fbSize, glIssued, frames, lastKey>>
  /\ UnchangedByLoopStep

\* glfwPollEvents hands a pending key event to the installed key callback.
DeliverKey ==
  /\ pc = "polling"
  /\ polled < MaxEvents
  /\ keyCallbackSet
  /\ \E key \in Keys, action \in Actions, mods \in Mods :
       /\ shouldClose' = keyCallback(key, action, mods, shouldClose)
       /\ lastKey' = <<key, action, mods>>
  /\ polled' = polled + 1
  /\ frameLog' = Append(frameLog, <<"keyCallback", <<>>>>)
  /\ UNCHANGED <<pc, viewport, fbSize, glIssued, frames>>
  /\ UnchangedByLoopStep

\* glfwPollEvents processes a window-close request of the OS: GLFW sets the
\* close flag itself.
DeliverClose ==
  /\ pc = "polling"
  /\ polled < MaxEvents
  /\ shouldClose' = TRUE
  /\ lastKey' = NoKey
  /\ polled' = polled + 1
  /\ UNCHANGED <<pc, viewport, fbSize, frameLog, glIssued, frames>>
  /\ UnchangedByLoopStep

\* No event is left: glfwPollEvents returns and the iteration ends.
PollEventsReturn ==
  /\ pc = "polling"
  /\ pc' = "loop_test"
  /\ lastKey' = NoKey
  /\ polled' = 0
  /\ UNCHANGED <<shouldClose, viewport, fbSize, frameLog, glIssued, frames>>
  /\ UnchangedByLoopStep

-----------------------------------------------------------------------------
(* Teardown *)

\* cleanUp: glfwDestroyWindow destroys the window and its context (detached
\* first, and all its objects with it); glDeleteVertexArrays is then called
\* with whatever context is current at that point; glfwTerminate.  A GL call
\* without a current context is undefined: it returns without effect or the
\* process crashes.
CleanUp ==
  /\ pc = "cleanUp"
  /\ cleanUpCalls' = cleanUpCalls + 1
  /\ windowExists' = FALSE
  /\ keyCallbackSet' = FALSE
  /\ contextCurrent' = FALSE
  /\ glPrograms' = {}
  /\ LET ctxAtDelete == contextCurrent'
         vaosAtDelete == IF windowExists' THEN glVaos ELSE {}
         effective == ctxAtDelete /\ programData.vao \in vaosAtDelete
     IN /\ glIssued' = glIssued \cup {<<"glDeleteVertexArrays", ctxAtDelete>>}
        /\ glVaos' = vaosAtDelete \ {programData.vao}
        /\ released' = [released EXCEPT
                          !.vao = IF effective THEN @ + 1 ELSE @]
        /\ \E outcome \in (IF ctxAtDelete THEN {"returns"}
                           ELSE {"returns", "crashes"}) :
             IF outcome = "returns"
             THEN /\ glfwInitialized' = FALSE
                  /\ pc' = "main_return"
                  /\ UNCHANGED exitStatus
             ELSE /\ pc' = "exited"
                  /\ exitStatus' = "crash"
                  /\ UNCHANGED glfwInitialized
  /\ UNCHANGED <<debug, vertFile, fragFile, errorCallbackSet, window,
                 shouldClose, compileStatus, linkStatus, programData, viewport,
                 fbSize, frameLog, frames, polled, lastKey, output>>

\* main returns 0 after cleanUp.
MainReturn ==
  /\ pc = "main_return"
  /\ pc' = "exited"
  /\ exitStatus' = "EXIT_SUCCESS"
  /\ UnchangedByMainStep

-----------------------------------------------------------------------------

Next ==
  \/ InitializeWindow
  \/ MainCheckWindow
  \/ InitializeGL
  \/ UncaughtException
  \/ LoopTest
  \/ GetFramebufferSize
  \/ Viewport
  \/ ClearColor
  \/ Clear
  \/ UseProgram
  \/ BindVertexArray
  \/ DrawArrays
  \/ SwapBuffers
  \/ PollEvents
  \/ DeliverKey
  \/ DeliverClose
  \/ PollEventsReturn
  \/ CleanUp
  \/ MainReturn

Spec == Init /\ [][Next]_vars

-----------------------------------------------------------------------------
(* Vocabulary of the properties *)

LoopBody ==
  {"glfwGetFramebufferSize", "glViewport", "glClearColor", "glClear",
   "glUseProgram", "glBindVertexArray", "glDrawArrays", "glfwSwapBuffers",
   "glfwPollEvents", "polling"}

InLoop == pc \in LoopBody \cup {"loop_test"}

BeforeBuild == {"start", "main_check", "initializeGL"}

\* createProgram has run and did not link.
BuildFailed == pc \notin BeforeBuild /\ window # NULL /\ ~linkStatus

\* The frame loop was reached.
LoopReached == pc \notin BeforeBuild /\ window # NULL /\ linkStatus

Names(log) == [i \in 1 .. Len(log) |-> log[i][1]]

Count(log, fns) == Cardinality({i \in 1 .. Len(log) : log[i][1] \in fns})

IsPrefix(s, t) ==
  /\ Len(s) <= Len(t)
  /\ \A i \in 1 .. Len(s) : s[i] = t[i]

DrawFunctions == {"glDrawArrays", "glDrawElements"}

\* Positions of an iteration at which its draw has been issued, and those at
\* which the frame has been presented.
AfterDraw == {"glfwSwapBuffers", "glfwPollEvents", "polling", "loop_test"}
AfterPresent == {"glfwPollEvents", "polling", "loop_test"}

-----------------------------------------------------------------------------
(* C1 *)

\* C1: on every run that reaches the frame loop, the program handle and the
\* vertex-array handle are live objects of a context that exists and is
\* current during the whole loop, and when the process has ended after the
\* loop each of the two handles has been released exactly once.
C1_ValidInLoopReleasedOnce ==
  /\ (LoopReached /\ InLoop) =>
       /\ programData.program \in glPrograms
       /\ programData.vao \in glVaos
       /\ windowExists
       /\ contextCurrent
  /\ (LoopReached /\ pc = "exited") =>
       /\ released.program = 1
       /\ released.vao = 1

-----------------------------------------------------------------------------
(* C2 *)

\* C2: once the close flag is set the loop exits within one iteration: the
\* flag is only ever true while events are being polled or the loop test is
\* next (or the loop is over), it stays true, the loop test with the flag
\* set leaves the loop, and no iteration starts while the flag is true.
C2_ExitsWithinOneIteration ==
  /\ [](shouldClose =>
          pc \in {"polling", "loop_test", "cleanUp", "main_return", "exited"})
  /\ [][shouldClose => (shouldClose' /\ frames' = frames)]_vars
  /\ [][(shouldClose /\ pc = "loop_test") => pc' = "cleanUp"]_vars

C2_Witness == shouldClose /\ pc = "cleanUp" /\ frames = 2

-----------------------------------------------------------------------------
(* C3 *)

\* C3: when glfwInit or glfwCreateWindow fails, initializeWindow returns no
\* window and main exits with EXIT_FAILURE: no context is ever current, no GL
\* call is issued, initializeGL is never entered, no vertex array exists and
\* no iteration of the frame loop runs.
C3_NoGraphicsAfterWindowFailure ==
  (pc # "start" /\ window = NULL) =>
    /\ pc \in {"main_check", "exited"}
    /\ pc = "exited" => exitStatus = "EXIT_FAILURE"
    /\ glIssued = {}
    /\ ~contextCurrent
    /\ ~windowExists
    /\ glPrograms = {}
    /\ glVaos = {}
    /\ programData = NoProgramData
    /\ frames = 0

C3_Witness ==
  pc = "exited" /\ window = NULL /\ exitStatus = "EXIT_FAILURE"

-----------------------------------------------------------------------------
(* C4 *)

\* C4: when a stage failed to compile, or a source file could not be read,
\* createProgram raises its runtime error: no ProgramData is constructed, the
\* loop is never entered and no draw call is issued.
C4_CompileFailureThrows ==
  (/\ pc \notin BeforeBuild
   /\ window # NULL
   /\ \/ ~compileStatus.vertex
      \/ ~compileStatus.fragment
      \/ ~vertFile.exists
      \/ ~fragFile.exists) =>
    /\ pc \in {"throwing", "exited"}
    /\ pc = "exited" => exitStatus = "terminate"
    /\ programData = NoProgramData
    /\ frames = 0
    /\ \A c \in glIssued : c[1] \notin DrawFunctions

C4_Witness ==
  /\ pc = "exited"
  /\ exitStatus = "terminate"
  /\ compileStatus.vertex
  /\ ~compileStatus.fragment

-----------------------------------------------------------------------------
(* C5 *)

\* C5: with a linked program, every iteration issues exactly one draw call,
\* glDrawArrays(GL_TRIANGLES, 0, 3), followed in the same iteration by
\* exactly one buffer swap, and the vertex count is 3 throughout.
C5_OneDrawOfThreeVerticesPerFrame ==
  (LoopReached /\ InLoop) =>
    /\ programData.vertexCount = 3
    /\ \A i \in 1 .. Len(frameLog) :
         frameLog[i][1] \in DrawFunctions =>
           frameLog[i] = <<"glDrawArrays", <<"GL_TRIANGLES", 0, 3>>>>
    /\ Count(frameLog, DrawFunctions) =
         (IF frames > 0 /\ pc \in AfterDraw THEN 1 ELSE 0)
    /\ Count(frameLog, {"glfwSwapBuffers"}) =
         (IF frames > 0 /\ pc \in AfterPresent THEN 1 ELSE 0)
    /\ \A i, j \in 1 .. Len(frameLog) :
         (frameLog[i][1] \in DrawFunctions /\ frameLog[j][1] = "glfwSwapBuffers")
           => i < j

C5_Witness ==
  /\ pc = "loop_test"
  /\ frames = 2
  /\ Count(frameLog, DrawFunctions) = 1

-----------------------------------------------------------------------------
(* C6 *)

\* A press of a quit chord: Q or W with control held, or F4 with alt held.
QuitChordPress(event) ==
  LET key == event[1]
      action == event[2]
      mods == event[3]
      ctrlHeld == (mods \div GLFW_MOD_CONTROL) % 2 = 1
      altHeld == (mods \div GLFW_MOD_ALT) % 2 = 1
  IN /\ action = GLFW_PRESS
     /\ \/ key \in {GLFW_KEY_Q, GLFW_KEY_W} /\ ctrlHeld
        \/ key = GLFW_KEY_F4 /\ altHeld

\* C6: every key event delivered to keyCallback sets the close flag when it
\* is a press of a quit chord and leaves the flag as it was otherwise; the
\* handler never clears the flag.
C6_KeyCallbackContract ==
  [][(polled' = polled + 1 /\ lastKey' # NoKey) =>
       shouldClose' = (shouldClose \/ QuitChordPress(lastKey'))]_vars

C6_Witness ==
  /\ pc = "polling"
  /\ lastKey = <<GLFW_KEY_F4, GLFW_PRESS, GLFW_MOD_ALT + GLFW_MOD_SHIFT>>
  /\ shouldClose
  /\ polled = 1

-----------------------------------------------------------------------------
(* C7 *)

\* C7: on the build-failure path cleanUp is never invoked: the process ends
\* through the uncaught runtime error with the window still existing and
\* GLFW still initialized, and no iteration of the frame loop has run.
C7_NoTeardownOnBuildFailure ==
  BuildFailed =>
    /\ pc \in {"throwing", "exited"}
    /\ pc = "exited" => exitStatus = "terminate"
    /\ cleanUpCalls = 0
    /\ windowExists
    /\ glfwInitialized
    /\ frames = 0

C7_Witness ==
  /\ BuildFailed
  /\ pc = "exited"
  /\ exitStatus = "terminate"
  /\ windowExists

-----------------------------------------------------------------------------
(* C8 *)

WindowFailureReported == \E o \in output : o[1] = "stderr"

ProgramLogEmitted == <<"stderr", "GL program error">> \in output

\* C8 as stated: in every build configuration a failed glfwInit or
\* glfwCreateWindow is reported before the exit with failure status, and a
\* failed build has its diagnostic text emitted before the error is raised.
C8_ReportedInEveryBuild ==
  /\ (pc # "start" /\ window = NULL) => WindowFailureReported
  /\ BuildFailed => ProgramLogEmitted

\* C8, amended: in a build with DEBUG defined both failure kinds are
\* reported before the process ends; in a build without DEBUG the program
\* writes nothing at all.
C8_ReportedInDebugBuildsOnly ==
  /\ debug =>
       /\ (pc # "start" /\ window = NULL) => WindowFailureReported
       /\ BuildFailed => ProgramLogEmitted
  /\ ~debug => output = {}

C8_Witness ==
  /\ debug
  /\ BuildFailed
  /\ pc = "exited"
  /\ ProgramLogEmitted

-----------------------------------------------------------------------------
(* C9 *)

FrameSteps ==
  <<"glfwGetFramebufferSize", "glViewport", "glClear", "glUseProgram",
    "glBindVertexArray", "glDrawArrays", "glfwSwapBuffers", "glfwPollEvents">>

ListedSteps(log) ==
  Names(SelectSeq(log, LAMBDA e : e[1] \in Range(FrameSteps)))

\* C9: in every iteration the listed steps occur in the fixed order, each
\* exactly once, the viewport is set to the size just queried, and
\* keyCallback runs only inside glfwPollEvents, after the frame was
\* presented.
C9_FrameStepOrder ==
  (LoopReached /\ InLoop) =>
    /\ IsPrefix(ListedSteps(frameLog), FrameSteps)
    /\ (pc = "loop_test" /\ frames > 0) => ListedSteps(frameLog) = FrameSteps
    /\ (pc \in LoopBody /\ pc # "polling") =>
         /\ Len(ListedSteps(frameLog)) < Len(FrameSteps)
         /\ FrameSteps[Len(ListedSteps(frameLog)) + 1] =
              (IF pc = "glClearColor" THEN "glClear" ELSE pc)
    /\ Len(frameLog) >= 2 => frameLog[2][2] = <<0, 0>> \o frameLog[1][2]
    /\ \A i \in 1 .. Len(frameLog) :
         frameLog[i][1] = "keyCallback" =>
           \E j, k \in 1 .. i - 1 :
             /\ j < k
             /\ frameLog[j][1] = "glfwSwapBuffers"
             /\ frameLog[k][1] = "glfwPollEvents"
    /\ lastKey # NoKey => pc = "polling"

C9_Witness ==
  /\ pc = "loop_test"
  /\ frames = 2
  /\ ListedSteps(frameLog) = FrameSteps
  /\ Count(frameLog, {"keyCallback"}) = 2

-----------------------------------------------------------------------------
(* C10 *)

\* C10: every GL call the program makes is issued while the window's
\* context exists and is current.
C10_EveryGLCallHasCurrentContext ==
  \A c \in glIssued : c[2]


====
